---- MODULE Spec2Model ----
(***************************************************************************)
(* A model of the amp_email Python SDK: the pydantic data models           *)
(* (models.py), the exception taxonomy (exceptions.py) and AMPEmailClient  *)
(* (client.py) driven by a caller and by a transport (requests.Session)    *)
(* that answers each request with a response or a failure.                 *)
(*                                                                         *)
(* Python values: an Optional value is None or Some(v); a dict is a        *)
(* function whose domain is its set of keys; a list is a sequence; an      *)
(* exception is a record [cls, msg] (a pydantic validation error also      *)
(* carries the locations of its errors).                                   *)
(***************************************************************************)
EXTENDS Integers, Sequences, FiniteSets, TLC

VARIABLES session, scope, bodyExc, propagated, requests, calls,
          pc, op, args, sent, result, outcome

\* session     the requests.Session the client owns: "open" or "closed"
\* scope       the caller's use of the client as a with-block: "none",
\*             "inside" the block, or "left"
\* bodyExc     the exception in flight in the body of the with-block, if any
\* propagated  the exception that left the with-block with the caller, if any
\* requests    the requests handed to session.request so far
\* calls       the operation calls made so far whose precondition held
\* pc          "idle", or "inflight" while a call is blocked in
\*             session.request waiting for the transport
\* op          the operation called last
\* args        the arguments of the call under way (or of a call refused
\*             before it sent anything)
\* sent        the request in flight: method, url and JSON body
\* result      the transport's answer to the last call that ended
\* outcome     what the last call gave its caller: a value or an exception
vars == <<session, scope, bodyExc, propagated, requests, calls,
          pc, op, args, sent, result, outcome>>

\* ---------------------------------------------------------------- bounds

\* Operation calls one client makes.
MaxCalls == 2
\* Templates in a Campaign document returned by the server.
MaxTemplates == 1

\* ------------------------------------------------------- program constants

UNAUTHORIZED == 401
TOO_MANY_REQUESTS == 429
ERROR_STATUS == 400
DEFAULT_MAX_CONCURRENT == 10
DEFAULT_CHUNK_SIZE == 100
DEFAULT_VARIATIONS == 3

\* ---------------------------------------------------------- Python values

None == [some |-> FALSE]
Some(v) == [some |-> TRUE, val |-> v]

\* The empty dict {}.
EmptyDict == [k \in {} |-> k]

\* Truth value of an Optional[str] / Optional[List] argument: None, "" and []
\* are falsy.
TruthyStr(o) == o.some /\ o.val /= ""
TruthyList(o) == o.some /\ Len(o.val) > 0
\* A pydantic model defines neither __bool__ nor __len__: every instance is
\* truthy, only None is falsy.
TruthyModel(o) == o.some

\* ------------------------------------------------------------- exceptions

\* The direct base class of each exception class: exceptions.py for the SDK's
\* own, the libraries' declarations for the others.
Base(cls) ==
    CASE cls = "AuthenticationError" -> "AMPEmailError"
      [] cls = "RateLimitError" -> "AMPEmailError"
      [] cls = "ValidationError" -> "AMPEmailError"
      [] cls = "AMPEmailError" -> "Exception"
      [] cls = "requests.ConnectionError" -> "requests.RequestException"
      [] cls = "requests.ConnectTimeout" -> "requests.ConnectionError"
      [] cls = "requests.ReadTimeout" -> "requests.RequestException"
      [] cls = "requests.JSONDecodeError" -> "requests.RequestException"
      [] cls = "requests.RequestException" -> "OSError"
      [] cls = "pydantic.ValidationError" -> "ValueError"
      [] OTHER -> "Exception"

RECURSIVE IsInstance(_, _)
IsInstance(cls, of) ==
    IF cls = of THEN TRUE
    ELSE IF cls = "Exception" THEN FALSE
    ELSE IsInstance(Base(cls), of)

Exc(cls, msg) == [cls |-> cls, msg |-> msg]

Return(v) == [kind |-> "return", value |-> v]
Raise(e) == [kind |-> "raise", exc |-> e]

\* ----------------------------------------------------------- data models

CampaignType == {"abandoned_cart", "promotional", "product_launch", "price_drop", "back_in_stock"}
CampaignGoal == {"acquisition", "retention", "engagement", "conversion"}
Urgency == {"low", "medium", "high"}

ModelFields(cls) ==
    CASE cls = "Product" ->
           {"id", "name", "price", "currency", "image", "url", "description", "brand"}
      [] cls = "CampaignContext" -> {"type", "goal", "urgency", "discount"}
      [] cls = "UserContext" -> {"first_name", "last_name", "email", "custom_fields"}
      [] cls = "BrandContext" -> {"voice", "colors", "logo", "company_name"}
      [] cls = "GenerationOptions" -> {"variations", "preserve_merge_tags"}
      [] cls = "Template" ->
           {"id", "variation_name", "amp_url", "fallback_url", "content", "merge_tags"}
      [] cls = "Campaign" ->
           {"campaign_id", "templates", "preview_urls", "cost", "metadata"}

\* Mutant: the fields declared without their aliases.
AliasForgotten(cls, f) == f

\* Field(..., alias=...): the name a field is read by at construction.
Alias(cls, f) ==
    CASE cls = "UserContext" /\ f = "first_name" -> "firstName"
      [] cls = "UserContext" /\ f = "last_name" -> "lastName"
      [] cls = "UserContext" /\ f = "custom_fields" -> "customFields"
      [] cls = "BrandContext" /\ f = "company_name" -> "companyName"
      [] cls = "GenerationOptions" /\ f = "preserve_merge_tags" -> "preserveMergeTags"
      [] cls = "Template" /\ f = "variation_name" -> "variationName"
      [] cls = "Template" /\ f = "amp_url" -> "ampUrl"
      [] cls = "Template" /\ f = "fallback_url" -> "fallbackUrl"
      [] cls = "Template" /\ f = "merge_tags" -> "mergeTags"
      [] cls = "Campaign" /\ f = "campaign_id" -> "campaignId"
      [] cls = "Campaign" /\ f = "preview_urls" -> "previewUrls"
      [] OTHER -> f

\* Fields declared without a default (a bare annotation, or Field(...)).
Required(cls, f) ==
    \/ cls = "CampaignContext" /\ f \in {"type", "goal"}
    \/ cls \in {"Template", "Campaign"}

\* The declared default of a field that has one.
Default(cls, f) ==
    CASE cls = "Product" /\ f = "currency" -> Some("USD")
      [] cls = "GenerationOptions" /\ f = "variations" -> DEFAULT_VARIATIONS
      [] cls = "GenerationOptions" /\ f = "preserve_merge_tags" -> TRUE
      [] OTHER -> None

\* Enumerated fields accept only their declared values.
EnumOk(cls, f, v) ==
    CASE cls = "CampaignContext" /\ f = "type" -> v \in CampaignType
      [] cls = "CampaignContext" /\ f = "goal" -> v \in CampaignGoal
      [] cls = "CampaignContext" /\ f = "urgency" -> (v.some => v.val \in Urgency)
      [] OTHER -> TRUE

\* BaseModel.__init__(**kw): each field is read under its alias (the models
\* set no populate_by_name), a key that names no field is ignored, an absent
\* field takes its default, an absent required field is an error.
Supplied(cls, kw) == {f \in ModelFields(cls) : Alias(cls, f) \in DOMAIN kw}

FieldErrors(cls, kw) ==
    {<<Alias(cls, f)>> : f \in {g \in ModelFields(cls) :
        \/ Required(cls, g) /\ g \notin Supplied(cls, kw)
        \/ g \in Supplied(cls, kw) /\ ~EnumOk(cls, g, kw[Alias(cls, g)])}}

Instance(cls, kw) ==
    [cls |-> cls,
     fields |-> [f \in ModelFields(cls) |->
                   IF f \in Supplied(cls, kw) THEN kw[Alias(cls, f)] ELSE Default(cls, f)],
     fields_set |-> Supplied(cls, kw)]

PydanticError(cls, locs) ==
    [cls |-> "pydantic.ValidationError",
     msg |-> ToString(Cardinality(locs)) \o
             (IF Cardinality(locs) = 1 THEN " validation error for "
              ELSE " validation errors for ") \o cls,
     errors |-> locs]

Construct(cls, kw) ==
    IF FieldErrors(cls, kw) = {} THEN Return(Instance(cls, kw))
    ELSE Raise(PydanticError(cls, FieldErrors(cls, kw)))

\* BaseModel.dict(): every field, set or not, under its attribute name
\* (by_alias and exclude_unset are off unless asked for).
Dict(obj) == [f \in ModelFields(obj.cls) |-> obj.fields[f]]

\* BaseModel.__eq__: same class, same field values.
ModelEq(a, b) == a.cls = b.cls /\ a.fields = b.fields

\* Campaign(**response): the Campaign fields as above, and every item of
\* `templates` built as a Template; the errors of item i are located under
\* ("templates", i).
TemplateErrors(doc) ==
    IF "templates" \notin DOMAIN doc THEN {}
    ELSE UNION {{<<"templates", i - 1>> \o e : e \in FieldErrors("Template", doc.templates[i])} :
                  i \in 1..Len(doc.templates)}

CampaignInstance(doc) ==
    [Instance("Campaign", doc) EXCEPT
       !.fields.templates = [i \in 1..Len(doc.templates) |->
                               Instance("Template", doc.templates[i])]]

ConstructCampaign(doc) ==
    IF FieldErrors("Campaign", doc) \cup TemplateErrors(doc) = {}
    THEN Return(CampaignInstance(doc))
    ELSE Raise(PydanticError("Campaign", FieldErrors("Campaign", doc) \cup TemplateErrors(doc)))

\* -------------------------------------------------------------- transport

\* What session.request gives back: a response (status_code, content) or an
\* exception of requests' hierarchy.  A body is empty, text that is no JSON,
\* a JSON object (a dict) or a JSON array (a list).
EmptyBody == [kind |-> "empty"]
TextBody == [kind |-> "text"]
ArrayBody == [kind |-> "array"]
ObjectBody(doc) == [kind |-> "object", doc |-> doc]

Response(status, body) == [kind |-> "response", status_code |-> status, body |-> body]
Failure(e) == [kind |-> "failure", exc |-> e]

\* response.content is falsy exactly for the empty body.
Content(body) == body.kind /= "empty"

JsonObject(doc) == [json |-> "object", doc |-> doc]
JsonArray == [json |-> "array"]

\* response.json(): the decoded document, or requests' JSONDecodeError (a
\* RequestException) when the body is no JSON.
Json(body) ==
    CASE body.kind = "object" -> Return(JsonObject(body.doc))
      [] body.kind = "array" -> Return(JsonArray)
      [] OTHER -> Raise(Exc("requests.JSONDecodeError",
                            "Expecting value: line 1 column 1 (char 0)"))

\* ---------------------------------------------------------------- _request

\* error_data.get("message", f"API error: {status}") on the decoded error body.
ErrorMessage(error_data, status) ==
    IF "message" \in DOMAIN error_data THEN error_data["message"]
    ELSE "API error: " \o ToString(status)

\* The branch taken for a status >= 400 other than 401 and 429.
ApiError(resp) ==
    IF ~Content(resp.body) THEN Raise(Exc("AMPEmailError", ErrorMessage(EmptyDict, resp.status_code)))
    ELSE IF Json(resp.body).kind = "raise" THEN Json(resp.body)
    ELSE IF Json(resp.body).value.json = "array"
         THEN Raise(Exc("AttributeError", "'list' object has no attribute 'get'"))
    ELSE Raise(Exc("AMPEmailError",
                   ErrorMessage(Json(resp.body).value.doc, resp.status_code)))

\* The body of the try block once the transport has answered.
Classify(resp) ==
    IF resp.status_code = UNAUTHORIZED
      THEN Raise(Exc("AuthenticationError", "Invalid API key"))
    ELSE IF resp.status_code = TOO_MANY_REQUESTS
      THEN Raise(Exc("RateLimitError", "Rate limit exceeded"))
    ELSE IF resp.status_code >= ERROR_STATUS THEN ApiError(resp)
    ELSE Json(resp.body)

\* Mutants of the except clause: `except Exception`, and
\* `except requests.exceptions.ConnectionError`.
CaughtAnyException(e) == IsInstance(e.cls, "Exception")
CaughtConnectionErrorOnly(e) == IsInstance(e.cls, "requests.ConnectionError")

\* except requests.exceptions.RequestException as e
Caught(e) == IsInstance(e.cls, "requests.RequestException")

ExceptClause(o) ==
    IF o.kind = "raise" /\ Caught(o.exc)
    THEN Raise(Exc("AMPEmailError", "Request failed: " \o o.exc.msg))
    ELSE o

\* What _request gives its caller for the transport's answer r.
_request(r) ==
    IF r.kind = "failure" THEN ExceptClause(Raise(r.exc))
    ELSE ExceptClause(Classify(r))

\* ------------------------------------------------------- request bodies

\* One optional key of a dict under construction.
Entry(present, key, value) == IF present THEN key :> value ELSE EmptyDict

\* generate, lines 69-82: campaign_context always, the others when truthy.
GeneratePayload(product_urls, products, campaign_context, user_context, brand_context, options) ==
    [campaign_context |->
        IF TruthyModel(campaign_context) THEN Dict(campaign_context.val) ELSE EmptyDict]
    @@ Entry(TruthyList(product_urls), "product_urls",
             IF product_urls.some THEN product_urls.val ELSE <<>>)
    @@ Entry(TruthyList(products), "products",
             IF products.some
             THEN [i \in 1..Len(products.val) |-> Dict(products.val[i])] ELSE <<>>)
    @@ Entry(TruthyModel(user_context), "user_context",
             IF user_context.some THEN Dict(user_context.val) ELSE EmptyDict)
    @@ Entry(TruthyModel(brand_context), "brand_context",
             IF brand_context.some THEN Dict(brand_context.val) ELSE EmptyDict)
    @@ Entry(TruthyModel(options), "options",
             IF options.some THEN Dict(options.val) ELSE EmptyDict)

\* Mutant: `if webhook_url is not None`.
WebhookEntryIfNotNone(webhook_url) ==
    Entry(webhook_url.some, "webhook_url", IF webhook_url.some THEN webhook_url.val ELSE "")

\* if webhook_url: payload["webhook_url"] = webhook_url
WebhookEntry(webhook_url) ==
    Entry(TruthyStr(webhook_url), "webhook_url",
          IF webhook_url.some THEN webhook_url.val ELSE "")

\* create_batch_campaign, lines 111-120.
BatchPayload(campaign_name, product_urls, campaign_context, max_concurrent, chunk_size, webhook_url) ==
    [campaign_name |-> campaign_name,
     product_urls |-> product_urls,
     campaign_context |-> Dict(campaign_context),
     max_concurrent |-> max_concurrent,
     chunk_size |-> chunk_size]
    @@ WebhookEntry(webhook_url)

\* return Campaign(**response): a decoded document that is no dict cannot be
\* unpacked as keyword arguments.
DecodeCampaign(o) ==
    IF o.kind = "raise" THEN o
    ELSE IF o.value.json = "object" THEN ConstructCampaign(o.value.doc)
    ELSE Raise(Exc("TypeError", "argument after ** must be a mapping, not list"))

\* What the operation gives the caller once _request has answered: generate
\* builds a Campaign, the others return the decoded document as it is.
Complete(operation, o) == IF operation = "generate" THEN DecodeCampaign(o) ELSE o

\* ------------------------------------------------------- caller's inputs

\* Keyword arguments a caller constructs each request-side model from: every
\* key is given under the name the model reads it by.
ProductKwargs ==
    {a @@ b @@ c :
       a \in {EmptyDict, "name" :> Some("Mug")},
       b \in {EmptyDict, "price" :> Some(10)},
       c \in {EmptyDict, "currency" :> Some("EUR"), "currency" :> None}}

CampaignContextKwargs ==
    {a @@ b @@ c @@ d :
       a \in {"type" :> "promotional"},
       b \in {"goal" :> "conversion"},
       c \in {EmptyDict, "urgency" :> Some("high"), "urgency" :> None},
       d \in {EmptyDict, "discount" :> Some(20)}}

UserContextKwargs ==
    {a @@ b @@ c @@ d :
       a \in {EmptyDict, "firstName" :> Some("Ann")},
       b \in {EmptyDict, "lastName" :> Some("Lee")},
       c \in {EmptyDict, "email" :> None},
       d \in {EmptyDict, "customFields" :> Some([plan |-> "pro"])}}

BrandContextKwargs ==
    {a @@ b @@ c :
       a \in {EmptyDict, "voice" :> Some("warm")},
       b \in {EmptyDict, "colors" :> Some(<<"#ffffff">>)},
       c \in {EmptyDict, "companyName" :> Some("Acme")}}

GenerationOptionsKwargs ==
    {a @@ b :
       a \in {EmptyDict, "variations" :> 5},
       b \in {EmptyDict, "preserveMergeTags" :> FALSE}}

RequestModels == {"Product", "CampaignContext", "UserContext", "BrandContext", "GenerationOptions"}

Kwargs(cls) ==
    CASE cls = "Product" -> ProductKwargs
      [] cls = "CampaignContext" -> CampaignContextKwargs
      [] cls = "UserContext" -> UserContextKwargs
      [] cls = "BrandContext" -> BrandContextKwargs
      [] cls = "GenerationOptions" -> GenerationOptionsKwargs

\* The instances passed to the operations.
SomeProduct == Instance("Product", "name" :> Some("Mug") @@ "price" :> Some(10))
SomeCampaignContext == Instance("CampaignContext", "type" :> "promotional" @@ "goal" :> "conversion")
SomeUserContexts ==
    {Instance("UserContext", "firstName" :> Some("Ann")),
     Instance("UserContext", "email" :> Some("ann@example.com"))}
SomeBrandContext == Instance("BrandContext", "companyName" :> Some("Acme"))
SomeOptions == Instance("GenerationOptions", "preserveMergeTags" :> FALSE)

\* The optional contexts of a generate call: none, each alone, all together.
NoContexts == [campaign_context |-> None, user_context |-> None,
               brand_context |-> None, options |-> None]
GenerateContexts ==
    {NoContexts,
     [NoContexts EXCEPT !.campaign_context = Some(SomeCampaignContext)],
     [NoContexts EXCEPT !.brand_context = Some(SomeBrandContext)],
     [NoContexts EXCEPT !.options = Some(SomeOptions)],
     [campaign_context |-> Some(SomeCampaignContext),
      user_context |-> Some(Instance("UserContext", "firstName" :> Some("Ann"))),
      brand_context |-> Some(SomeBrandContext), options |-> Some(SomeOptions)]}
    \cup {[NoContexts EXCEPT !.user_context = Some(u)] : u \in SomeUserContexts}

UrlLists == {None, Some(<<>>), Some(<<"https://shop.example/p1">>)}
ProductLists == {None, Some(<<>>), Some(<<SomeProduct>>)}
WebhookUrls == {None, Some(""), Some("https://hooks.example/done")}
Ids == {"t1"}

\* ------------------------------------------------------ transport's answers

Statuses == {200, ERROR_STATUS, UNAUTHORIZED, TOO_MANY_REQUESTS, 500}

ErrorDocs == {[message |-> "boom"], [error |-> "bad request"], EmptyDict}

TemplateKeys == {"id", "variationName", "ampUrl", "fallbackUrl", "content", "mergeTags"}
CampaignKeys == {"campaignId", "templates", "previewUrls", "cost", "metadata"}

\* Every required key, or all but one of them, or all of them and an unknown one.
KeySets(keys, unknown) == {keys, keys \cup {unknown}} \cup {keys \ {k} : k \in keys}

TemplateDoc(K) ==
    [k \in K |->
       CASE k = "id" -> "t1"
         [] k = "variationName" -> "A"
         [] k = "ampUrl" -> "https://cdn.example/t1.amp.html"
         [] k = "fallbackUrl" -> "https://cdn.example/t1.html"
         [] k = "content" -> [subject |-> "Hello"]
         [] k = "mergeTags" -> <<"firstName">>
         [] OTHER -> "unknown"]

TemplateDocs == {TemplateDoc(K) : K \in KeySets(TemplateKeys, "score")}

TemplateLists == UNION {[1..n -> TemplateDocs] : n \in 0..MaxTemplates}

CampaignDoc(K, templates) ==
    [k \in K |->
       CASE k = "campaignId" -> "c1"
         [] k = "templates" -> templates
         [] k = "previewUrls" -> <<[desktop |-> "https://cdn.example/p1"]>>
         [] k = "cost" -> [credits |-> 2]
         [] k = "metadata" -> [model |-> "v1"]
         [] OTHER -> "unknown"]

CampaignDocs ==
    {CampaignDoc(CampaignKeys, ts) : ts \in TemplateLists}
    \cup {CampaignDoc(K, <<>>) : K \in KeySets(CampaignKeys, "traceId")}

Bodies == {EmptyBody, TextBody, ArrayBody} \cup {ObjectBody(d) : d \in ErrorDocs}

TransportFailures ==
    {Exc("requests.ConnectionError", "Connection refused"),
     Exc("requests.ConnectionError", "Name or service not known"),
     Exc("requests.ConnectTimeout", "Connection timed out"),
     Exc("requests.ReadTimeout", "Read timed out")}

TransportResults ==
    {Response(st, b) : st \in Statuses, b \in Bodies}
    \cup {Response(200, ObjectBody(d)) : d \in CampaignDocs}
    \cup {Failure(e) : e \in TransportFailures}

\* ------------------------------------------------------------ the client

BaseUrl == "https://api.amp-platform.com"

\* After AMPEmailClient(api_key): the session exists and nothing was sent.
Init ==
    /\ session = "open"
    /\ scope = "none"
    /\ bodyExc = None
    /\ propagated = None
    /\ requests = 0
    /\ calls = 0
    /\ pc = "idle"
    /\ op = "none"
    /\ args = None
    /\ sent = None
    /\ result = None
    /\ outcome = None

\* The caller may start an operation: no call is under way, no exception is
\* leaving a with-block, and the client has not been closed.
CanCall ==
    /\ pc = "idle"
    /\ session = "open"
    /\ scope \in {"none", "inside"}
    /\ bodyExc = None
    /\ calls < MaxCalls

\* An exception raised in the body of a with-block is in flight there.
InBody(o) == IF scope = "inside" /\ o.kind = "raise" THEN Some(o.exc) ELSE None

\* _request up to self.session.request(method, url, timeout=..., **kwargs):
\* the one request of the call is handed to the session.
SessionRequest(method, path, json) ==
    /\ sent' = Some([method |-> method, url |-> BaseUrl \o path, json |-> json])
    /\ requests' = requests + 1
    /\ pc' = "inflight"
    /\ result' = None
    /\ outcome' = None
    /\ UNCHANGED <<session, scope, bodyExc, propagated>>

generate(product_urls, products, campaign_context, user_context, brand_context, options) ==
    /\ CanCall
    /\ op' = "generate"
    /\ args' = Some([product_urls |-> product_urls, products |-> products,
                     campaign_context |-> campaign_context, user_context |-> user_context,
                     brand_context |-> brand_context, options |-> options])
    /\ IF ~TruthyList(product_urls) /\ ~TruthyList(products)
       THEN /\ outcome' = Some(Raise(Exc("ValueError",
                                "Either product_urls or products must be provided")))
            /\ bodyExc' = InBody(outcome'.val)
            /\ sent' = None
            /\ result' = None
            /\ UNCHANGED <<session, scope, propagated, requests, calls, pc>>
       ELSE /\ SessionRequest("POST", "/api/v1/generate",
                   Some(GeneratePayload(product_urls, products, campaign_context,
                                        user_context, brand_context, options)))
            /\ calls' = calls + 1

get_template(template_id) ==
    /\ CanCall
    /\ op' = "get_template"
    /\ args' = Some([template_id |-> template_id])
    /\ SessionRequest("GET", "/api/v1/templates/" \o template_id, None)
    /\ calls' = calls + 1

personalize(template_id, recipient_data) ==
    /\ CanCall
    /\ op' = "personalize"
    /\ args' = Some([template_id |-> template_id, recipient_data |-> recipient_data])
    /\ SessionRequest("POST", "/api/v1/personalize",
           Some([template_id |-> template_id, recipient_data |-> recipient_data]))
    /\ calls' = calls + 1

create_batch_campaign(campaign_name, product_urls, campaign_context, max_concurrent, chunk_size, webhook_url) ==
    /\ CanCall
    /\ op' = "create_batch_campaign"
    /\ args' = Some([campaign_name |-> campaign_name, product_urls |-> product_urls,
                     campaign_context |-> campaign_context,
                     max_concurrent |-> max_concurrent, chunk_size |-> chunk_size,
                     webhook_url |-> webhook_url])
    /\ SessionRequest("POST", "/api/v1/batch/campaign",
           Some(BatchPayload(campaign_name, product_urls, campaign_context,
                             max_concurrent, chunk_size, webhook_url)))
    /\ calls' = calls + 1

get_campaign_analytics(campaign_id) ==
    /\ CanCall
    /\ op' = "get_campaign_analytics"
    /\ args' = Some([campaign_id |-> campaign_id])
    /\ SessionRequest("GET", "/api/v1/analytics/campaign/" \o campaign_id, None)
    /\ calls' = calls + 1

\* Mutant: a rate-limited or failed request is sent once more before the call
\* gives up.
ReceiveRetrying(r) ==
    /\ pc = "inflight"
    /\ result' = Some(r)
    /\ outcome' = Some(Complete(op, _request(r)))
    /\ bodyExc' = InBody(outcome'.val)
    /\ pc' = "idle"
    /\ args' = None
    /\ sent' = None
    /\ requests' = IF r.kind = "failure" \/ r.status_code = TOO_MANY_REQUESTS
                   THEN requests + 1 ELSE requests
    /\ UNCHANGED <<session, scope, propagated, calls, op>>

\* The rest of the call, from the transport's answer r to the caller: _request
\* classifies it (lines 139-152) and the operation returns or raises.  The
\* call's frame (its arguments, the request it sent) is gone when it ends.
Receive(r) ==
    /\ pc = "inflight"
    /\ result' = Some(r)
    /\ outcome' = Some(Complete(op, _request(r)))
    /\ bodyExc' = InBody(outcome'.val)
    /\ pc' = "idle"
    /\ args' = None
    /\ sent' = None
    /\ UNCHANGED <<session, scope, propagated, requests, calls, op>>

\* A caller serializes an instance the way the client does (.dict()) and
\* constructs the same model from the mapping.
RoundTrip(cls, kw) ==
    /\ pc = "idle"
    /\ bodyExc = None
    /\ scope /= "left"
    /\ op' = "round_trip"
    /\ args' = Some([cls |-> cls, kw |-> kw])
    /\ sent' = None
    /\ result' = None
    /\ outcome' = Some(Return([original |-> Instance(cls, kw),
                               wire |-> Dict(Instance(cls, kw)),
                               back |-> Construct(cls, Dict(Instance(cls, kw)))]))
    /\ UNCHANGED <<session, scope, bodyExc, propagated, requests, calls, pc>>

close ==
    /\ pc = "idle"
    /\ bodyExc = None
    /\ session' = "closed"
    /\ UNCHANGED <<scope, bodyExc, propagated, requests, calls, pc, op, args, sent,
                   result, outcome>>

\* with client: ...
__enter__ ==
    /\ pc = "idle"
    /\ scope = "none"
    /\ session = "open"
    /\ scope' = "inside"
    /\ UNCHANGED <<session, bodyExc, propagated, requests, calls, pc, op, args, sent,
                   result, outcome>>

\* The body catches the exception itself and goes on inside the block.
BodyHandles ==
    /\ scope = "inside"
    /\ bodyExc /= None
    /\ bodyExc' = None
    /\ UNCHANGED <<session, scope, propagated, requests, calls, pc, op, args, sent,
                   result, outcome>>

\* Mutant: __exit__ without self.close().
ExitWithoutClose ==
    /\ pc = "idle"
    /\ scope = "inside"
    /\ scope' = "left"
    /\ propagated' = bodyExc
    /\ UNCHANGED <<session, bodyExc, requests, calls, pc, op, args, sent, result, outcome>>

\* The block is left, normally (bodyExc = None) or by the exception in flight:
\* __exit__ closes the session and returns None, so the exception goes on to
\* the caller.
__exit__ ==
    /\ pc = "idle"
    /\ scope = "inside"
    /\ session' = "closed"
    /\ scope' = "left"
    /\ propagated' = bodyExc
    /\ UNCHANGED <<bodyExc, requests, calls, pc, op, args, sent, result, outcome>>

Next ==
    \/ \E product_urls \in UrlLists, products \in ProductLists, c \in GenerateContexts :
            generate(product_urls, products, c.campaign_context, c.user_context,
                     c.brand_context, c.options)
    \/ \E template_id \in Ids : get_template(template_id)
    \/ \E template_id \in Ids : personalize(template_id, [firstName |-> "Ann"])
    \/ \E max_concurrent \in {DEFAULT_MAX_CONCURRENT, 2}, webhook_url \in WebhookUrls :
            create_batch_campaign("spring", <<"https://shop.example/p1">>,
                                  SomeCampaignContext, max_concurrent,
                                  DEFAULT_CHUNK_SIZE, webhook_url)
    \/ \E campaign_id \in {"c1"} : get_campaign_analytics(campaign_id)
    \/ \E r \in TransportResults : Receive(r)
    \/ \E cls \in RequestModels : \E kw \in Kwargs(cls) : RoundTrip(cls, kw)
    \/ close
    \/ __enter__
    \/ BodyHandles
    \/ __exit__

Spec == Init /\ [][Next]_vars

\* ----------------------------------------------------------------- claims

\* Helpers of the claims' statements.
Unset(o) == ~o.some \/ o.val = <<>>
Contains(str, sub) ==
    \E i \in 1..(Len(str) - Len(sub) + 1) : SubSeq(str, i, i + Len(sub) - 1) = sub
Raised == pc = "idle" /\ outcome.some /\ outcome.val.kind = "raise"
Answered == pc = "idle" /\ result.some
Responded == Answered /\ result.val.kind = "response"
WireKeys(obj) == {Alias(obj.cls, f) : f \in obj.fields_set}

\* C1: a generate call with product_urls and products both unset or empty
\* raises an error of the SDK's ValidationError kind and hands no request to
\* the session.
C1_EmptyInputIsValidationError ==
    (op = "generate" /\ args.some /\ Unset(args.val.product_urls) /\ Unset(args.val.products))
    => /\ Raised
       /\ IsInstance(outcome.val.exc.cls, "ValidationError")
       /\ sent = None

\* C2: whatever the operation and the response body, a 401 response makes the
\* call raise AuthenticationError and a 429 response RateLimitError, not the
\* generic error the client raises for transport failures.
C2_AuthAndRateLimit ==
    Responded =>
      /\ result.val.status_code = 401 =>
           Raised /\ outcome.val.exc.cls = "AuthenticationError"
      /\ result.val.status_code = 429 =>
           Raised /\ outcome.val.exc.cls = "RateLimitError"

C2_Witness ==
    /\ Responded /\ op = "create_batch_campaign"
    /\ result.val.status_code = 429 /\ result.val.body.kind = "text"
    /\ Raised /\ outcome.val.exc.cls = "RateLimitError"

\* C3: a response with status >= 400 other than 401 and 429 raises the generic
\* API error, whose message is the `message` field of the JSON error body when
\* there is one and "API error: <status>" in every other case (empty body,
\* body that is no JSON, JSON without `message`).
C3_ApiErrorMessage ==
    (Responded /\ result.val.status_code >= 400 /\ result.val.status_code \notin {401, 429})
    => /\ Raised
       /\ outcome.val.exc.cls = "AMPEmailError"
       /\ outcome.val.exc.msg =
            IF result.val.body.kind = "object" /\ "message" \in DOMAIN result.val.body.doc
            THEN result.val.body.doc["message"]
            ELSE "API error: " \o ToString(result.val.status_code)

\* C4: every call whose precondition holds hands exactly one request to the
\* session, whatever its outcome: the requests issued are as many as the calls.
C4_OneRequestPerCall == requests = calls

C4_Witness ==
    /\ requests = 2 /\ calls = 2
    /\ Answered /\ result.val.kind = "failure"

\* C5: serializing a request-side model the way the client does and
\* constructing the model from the mapping gives an instance equal to the
\* original.
C5_RoundTrip ==
    (op = "round_trip" /\ outcome.some)
    => /\ outcome.val.value.back.kind = "return"
       /\ ModelEq(outcome.val.value.back.value, outcome.val.value.original)

\* C6: the mapping the client puts in a request body for a model instance has
\* exactly the wire names of the fields set at construction as its keys.
C6_WireNamesOfSetFields ==
    /\ (pc = "inflight" /\ op = "generate") =>
         LET a == args.val
             body == sent.val.json.val
         IN /\ a.campaign_context.some =>
                 DOMAIN body.campaign_context = WireKeys(a.campaign_context.val)
            /\ a.user_context.some =>
                 DOMAIN body.user_context = WireKeys(a.user_context.val)
            /\ a.brand_context.some =>
                 DOMAIN body.brand_context = WireKeys(a.brand_context.val)
            /\ a.options.some => DOMAIN body.options = WireKeys(a.options.val)
            /\ ~Unset(a.products) =>
                 \A i \in 1..Len(a.products.val) :
                    DOMAIN body.products[i] = WireKeys(a.products.val[i])
    /\ (pc = "inflight" /\ op = "create_batch_campaign") =>
         DOMAIN sent.val.json.val.campaign_context = WireKeys(args.val.campaign_context)

\* C7: on a 200 response to generate whose JSON body is an object, the call
\* returns a Campaign holding the decoded values when every required Campaign
\* and Template field is there (unknown fields do no harm), and otherwise
\* raises a decode error that names each missing field and is neither an SDK
\* error nor a transport error.
C7_CampaignKeys == {"campaignId", "templates", "previewUrls", "cost", "metadata"}
C7_TemplateKeys == {"id", "variationName", "ampUrl", "fallbackUrl", "content", "mergeTags"}
C7_Missing(doc) ==
    {<<k>> : k \in C7_CampaignKeys \ DOMAIN doc}
    \cup (IF "templates" \in DOMAIN doc
          THEN UNION {{<<"templates", i - 1, k>> : k \in C7_TemplateKeys \ DOMAIN doc.templates[i]} :
                        i \in 1..Len(doc.templates)}
          ELSE {})
C7_SameTemplate(t, d) ==
    /\ t.cls = "Template"
    /\ t.fields.id = d.id
    /\ t.fields.variation_name = d.variationName
    /\ t.fields.amp_url = d.ampUrl
    /\ t.fields.fallback_url = d.fallbackUrl
    /\ t.fields.content = d.content
    /\ t.fields.merge_tags = d.mergeTags
C7_SameCampaign(c, d) ==
    /\ c.cls = "Campaign"
    /\ c.fields.campaign_id = d.campaignId
    /\ c.fields.preview_urls = d.previewUrls
    /\ c.fields.cost = d.cost
    /\ c.fields.metadata = d.metadata
    /\ Len(c.fields.templates) = Len(d.templates)
    /\ \A i \in 1..Len(d.templates) : C7_SameTemplate(c.fields.templates[i], d.templates[i])

C7_DecodeCampaign ==
    (Responded /\ op = "generate" /\ result.val.status_code = 200
       /\ result.val.body.kind = "object")
    => LET doc == result.val.body.doc
           o == outcome.val
       IN IF C7_Missing(doc) = {}
          THEN o.kind = "return" /\ C7_SameCampaign(o.value, doc)
          ELSE /\ o.kind = "raise"
               /\ ~IsInstance(o.exc.cls, "AMPEmailError")
               /\ ~IsInstance(o.exc.cls, "requests.RequestException")
               /\ "errors" \in DOMAIN o.exc
               /\ C7_Missing(doc) \subseteq o.exc.errors

C7_Witness ==
    /\ Responded /\ op = "generate" /\ result.val.status_code = 200
    /\ result.val.body.kind = "object"
    /\ DOMAIN result.val.body.doc = C7_CampaignKeys
    /\ Len(result.val.body.doc.templates) > 0
    /\ "score" \in DOMAIN result.val.body.doc.templates[1]
    /\ outcome.val.kind = "return"

\* A decode failure that names the missing field is reached too.
C7_WitnessMissing ==
    /\ Responded /\ op = "generate" /\ result.val.status_code = 200
    /\ result.val.body.kind = "object"
    /\ C7_CampaignKeys \ DOMAIN result.val.body.doc = {"campaignId"}
    /\ outcome.val.kind = "raise"

\* C8 as claimed: the body of create_batch_campaign has no webhook_url key when
\* the argument is not supplied and has it, unchanged, for every supplied
\* string, the empty one included; the five other keys are always there.
C8_BatchKeys == {"campaign_name", "product_urls", "campaign_context", "max_concurrent", "chunk_size"}
C9_ClosedOnExit == scope = "left" => (session = "closed" /\ propagated = bodyExc)

C9_Witness ==
    /\ scope = "left" /\ session = "closed"
    /\ propagated.some /\ propagated.val.cls = "RateLimitError"

\* C10: a transport failure of the call's request reaches the caller as the
\* generic API error (the base kind itself) whose message contains the
\* failure's description.
C10_TransportFailure ==
    (Answered /\ result.val.kind = "failure")
    => /\ Raised
       /\ outcome.val.exc.cls = "AMPEmailError"
       /\ Contains(outcome.val.exc.msg, result.val.exc.msg)

C10_Witness ==
    /\ Answered /\ op = "get_template" /\ result.val.kind = "failure"
    /\ result.val.exc.cls = "requests.ReadTimeout"
    /\ Raised /\ outcome.val.exc.cls = "AMPEmailError"
    /\ outcome.val.exc.msg = "Request failed: Read timed out"

====
